---- MODULE Spec2Model ----
(***************************************************************************)
(* The token store of go-oauth2-pg (src/token_store.go): a TokenStore over *)
(* a pgx connection pool, its synchronous operations (Create, the three    *)
(* lookups and the three removals), its construction by options            *)
(* (NewTokenStore) and its background cleanup goroutine driven by a        *)
(* time.Ticker (InitCleanup, cleanExpiredTokens, Close).                   *)
(*                                                                         *)
(* Time is an integer clock; a time.Duration is an integer number of clock *)
(* units.  The database table is the set `rows`; every SQL statement is    *)
(* one atomic step (each is a single auto-committed statement).            *)
(***************************************************************************)
EXTENDS Integers, Sequences, FiniteSets, TLC

VARIABLES
    opts,      \* the options handed to NewTokenStore
    s,         \* the TokenStore struct (token_store.go:83-89)
    newRet,    \* what NewTokenStore returned: [done, store, err]
    tickers,   \* the time.Tickers created so far, in creation order
    tasks,     \* the cleanup goroutines started so far, in creation order
    closed,    \* Close has returned and no InitCleanup started a task since
    rows,      \* the rows of the token table
    nextId,    \* the BIGSERIAL sequence of the id column
    now,       \* the clock read by time.Now()
    idle,      \* connections of the pool that are not acquired
    calls,     \* number of synchronous store calls made so far
    last,      \* the most recent synchronous call and what it returned
    sweepErrs, \* number of sweep errors written to the log at error level
    swept,     \* history: the rows that sweeps have deleted
    schema,    \* the schema objects of the database, by table
    clients,   \* the rows of the client table
    dbCalls,   \* number of InitTable and client store calls made so far
    dbLast     \* the most recent of these calls and what it returned

(* The state of the schema and of the client store. *)
dbVars == <<schema, clients, dbCalls, dbLast>>

vars == <<opts, s, newRet, tickers, tasks, closed, rows, nextId, now, idle,
          calls, last, sweepErrs, swept, schema, clients, dbCalls, dbLast>>

----------------------------------------------------------------------------
(* Bounds of the model. *)

MaxTime == 3        \* the clock runs from StartTime to MaxTime
MaxConns == 2       \* size of the connection pool (pgxpool MaxConns)
MaxCalls == 2       \* synchronous calls per behaviour
MaxInits == 1       \* tickers/goroutines created per behaviour
MaxOpts == 3        \* options per NewTokenStore call
MaxSweepErrs == 1   \* failed sweeps per behaviour
MaxDbCalls == 3     \* InitTable and client store calls per behaviour

(* The zero time.Time: the value of a time field that was never set.  It   *)
(* lies before every reading of the clock.                                 *)
ZeroTime == 0
StartTime == ZeroTime + 1

----------------------------------------------------------------------------
(* Errors.  ErrNoRows is pgx.ErrNoRows ("not found"); StorageErr stands    *)
(* for any other error of the pool or the database; Panic is a run-time    *)
(* panic that unwinds the caller instead of a return.                      *)

NoErr == "nil"
ErrNoRows == "ErrNoRows"
StorageErr == "storage error"
Panic == "panic: nil pointer dereference"
ErrNoTable == "no table provided"
ErrNoConnPool == "no connection pool provided"
ErrNoLogger == "no logger provided"

DefaultTokenStoreTable == "oauth2_tokens"

----------------------------------------------------------------------------
(* The framework's token record (models.Token, reached through the        *)
(* oauth2.TokenInfo getters used in Create).                               *)

TokenFields ==
    <<"ClientID", "Code", "CodeCreateAt", "CodeExpiresIn",
      "Access", "AccessCreateAt", "AccessExpiresIn",
      "Refresh", "RefreshCreateAt", "RefreshExpiresIn">>

StringFields == {"ClientID", "Code", "Access", "Refresh"}
TimeFields == {"CodeCreateAt", "AccessCreateAt", "RefreshCreateAt"}

(* The zero value of a field, which json.Unmarshal leaves in place when    *)
(* the document has no member of that name.                                *)
ZeroOf(f) ==
    IF f \in StringFields THEN [str |-> "", num |-> 0]
    ELSE IF f \in TimeFields THEN [str |-> "", num |-> ZeroTime]
    ELSE [str |-> "", num |-> 0]

Codes == {"", "c"}
Accesses == {"", "a"}
Refreshes == {"", "r"}
CodeTTLs == {1}
AccessTTLs == {2}
RefreshTTLs == {1, 3}

(* The tokens the framework hands to Create at time t: a leg that is       *)
(* present carries its issue time and its ttl, an absent leg carries zero  *)
(* values.                                                                 *)
Leg(str, t, ttls) ==
    IF str = "" THEN {[str |-> "", at |-> ZeroTime, ttl |-> 0]}
    ELSE {[str |-> str, at |-> t, ttl |-> d] : d \in ttls}

TokenInfos(t) ==
    { [ClientID |-> "client",
       Code |-> c.str, CodeCreateAt |-> c.at, CodeExpiresIn |-> c.ttl,
       Access |-> a.str, AccessCreateAt |-> a.at, AccessExpiresIn |-> a.ttl,
       Refresh |-> r.str, RefreshCreateAt |-> r.at, RefreshExpiresIn |-> r.ttl] :
      c \in UNION {Leg(x, t, CodeTTLs) : x \in Codes},
      a \in UNION {Leg(x, t, AccessTTLs) : x \in Accesses},
      r \in UNION {Leg(x, t, RefreshTTLs) : x \in Refreshes} }

----------------------------------------------------------------------------
(* json.Marshal / json.Unmarshal of a token (token_store.go:166, 100).     *)
(* The document is the list of its members, <<name, value>>, one per       *)
(* exported field; a value is a JSON string or a JSON number.              *)

JsonValue(f, v) ==
    IF f \in StringFields THEN [str |-> v, num |-> 0] ELSE [str |-> "", num |-> v]

Marshal(info) ==
    [i \in 1..Len(TokenFields) |->
        <<TokenFields[i], JsonValue(TokenFields[i], info[TokenFields[i]])>>]

Member(data, f) ==
    LET hits == {i \in 1..Len(data) : data[i][1] = f}
    IN  IF hits = {} THEN ZeroOf(f) ELSE data[CHOOSE i \in hits : TRUE][2]

FieldOf(data, f) ==
    IF f \in StringFields THEN Member(data, f).str ELSE Member(data, f).num

(* Unmarshal with the ClientID member not recognised. *)
Unmarshal_DropsClientID(data) ==
    [ClientID |-> "",
     Code |-> FieldOf(data, "Code"),
     CodeCreateAt |-> FieldOf(data, "CodeCreateAt"),
     CodeExpiresIn |-> FieldOf(data, "CodeExpiresIn"),
     Access |-> FieldOf(data, "Access"),
     AccessCreateAt |-> FieldOf(data, "AccessCreateAt"),
     AccessExpiresIn |-> FieldOf(data, "AccessExpiresIn"),
     Refresh |-> FieldOf(data, "Refresh"),
     RefreshCreateAt |-> FieldOf(data, "RefreshCreateAt"),
     RefreshExpiresIn |-> FieldOf(data, "RefreshExpiresIn")]

Unmarshal(data) ==
    [ClientID |-> FieldOf(data, "ClientID"),
     Code |-> FieldOf(data, "Code"),
     CodeCreateAt |-> FieldOf(data, "CodeCreateAt"),
     CodeExpiresIn |-> FieldOf(data, "CodeExpiresIn"),
     Access |-> FieldOf(data, "Access"),
     AccessCreateAt |-> FieldOf(data, "AccessCreateAt"),
     AccessExpiresIn |-> FieldOf(data, "AccessExpiresIn"),
     Refresh |-> FieldOf(data, "Refresh"),
     RefreshCreateAt |-> FieldOf(data, "RefreshCreateAt"),
     RefreshExpiresIn |-> FieldOf(data, "RefreshExpiresIn")]

----------------------------------------------------------------------------
(* The schema (token_store.go:136-152, README.md:180-191).  A table is the *)
(* set of its schema objects; the empty set is a table that does not       *)
(* exist.  A CREATE TABLE statement is the list of its column definitions, *)
(* each with the comma that follows it in the statement text, if any.      *)

TokenTable == "tokens"
ClientTable == "clients"

Col(name, type, comma) == [name |-> name, type |-> type, comma |-> comma]

TokenTableDDL ==
    <<Col("id", "BIGSERIAL", TRUE), Col("code", "TEXT", TRUE),
      Col("access_token", "TEXT", TRUE), Col("refresh_token", "TEXT", TRUE),
      Col("data", "JSONB", TRUE), Col("created_at", "TIMESTAMPTZ", TRUE),
      Col("expires_at", "TIMESTAMPTZ", FALSE)>>

TokenIndexes == {"code_idx", "access_idx", "refresh_idx", "expires_idx"}

ClientTableDDL ==
    <<Col("id", "VARCHAR", TRUE), Col("secret", "VARCHAR", TRUE),
      Col("domain", "VARCHAR", TRUE), Col("data", "JSONB", FALSE),
      Col("created_at", "TIMESTAMPTZ", TRUE)>>

ClientIndexes == {"domain_idx"}

(* The table as its statement defines it, with its indexes. *)
FullTable(idxs) == {"table"} \cup idxs

(* The states a table can be in before the store first touches it: absent, *)
(* or created (by an earlier run, or by a migration) with its indexes.     *)
TableStates(idxs) == {{}, FullTable(idxs)}

NoSchema == [t \in {TokenTable, ClientTable} |-> {}]

NoDbCall == [op |-> "none", id |-> "", err |-> NoErr, info |-> <<>>, stmt |-> "none"]


TableOpt(table) == [kind |-> "table", table |-> table, isNil |-> FALSE, interval |-> 0]
ConnPoolOpt(isNil) == [kind |-> "pool", table |-> "", isNil |-> isNil, interval |-> 0]
CleanupIntervalOpt(d) == [kind |-> "interval", table |-> "", isNil |-> FALSE, interval |-> d]
LoggerOpt(isNil) == [kind |-> "logger", table |-> "", isNil |-> isNil, interval |-> 0]

Tables == {"", "tokens"}
Intervals == {0 - 1, 0, 1}

Options ==
    {TableOpt(t) : t \in Tables} \cup {ConnPoolOpt(b) : b \in BOOLEAN}
    \cup {CleanupIntervalOpt(d) : d \in Intervals} \cup {LoggerOpt(b) : b \in BOOLEAN}

OptionSeqs == UNION {[1..n -> Options] : n \in 0..MaxOpts}

(* s := &TokenStore{table: DefaultTokenStoreTable, logger: new(NoopLogger)} *)
NewStruct ==
    [pool |-> "nil", table |-> DefaultTokenStoreTable, logger |-> "NoopLogger",
     cleanupInterval |-> 0, cleanupTicker |-> 0]

(* One option applied to the struct: the struct after it, and its error.   *)
WithTokenStoreTable(o, st) ==
    IF o.table = "" THEN [s |-> st, err |-> ErrNoTable]
    ELSE [s |-> [st EXCEPT !.table = o.table], err |-> NoErr]

WithTokenStoreConnPool(o, st) ==
    IF o.isNil THEN [s |-> st, err |-> ErrNoConnPool]
    ELSE [s |-> [st EXCEPT !.pool = "pool"], err |-> NoErr]

WithTokenStoreCleanupInterval(o, st) ==
    [s |-> [st EXCEPT !.cleanupInterval = o.interval], err |-> NoErr]

WithTokenStoreLogger(o, st) ==
    IF o.isNil THEN [s |-> st, err |-> ErrNoLogger]
    ELSE [s |-> [st EXCEPT !.logger = "logger"], err |-> NoErr]

ApplyOption(o, st) ==
    CASE o.kind = "table" -> WithTokenStoreTable(o, st)
      [] o.kind = "pool" -> WithTokenStoreConnPool(o, st)
      [] o.kind = "interval" -> WithTokenStoreCleanupInterval(o, st)
      [] OTHER -> WithTokenStoreLogger(o, st)

(* The option loop going on after a failure and reporting the last error. *)
RECURSIVE ApplyOptions_KeepsGoing(_, _, _)
ApplyOptions_KeepsGoing(os, i, st) ==
    IF i > Len(os) THEN [s |-> st, err |-> NoErr]
    ELSE LET r == ApplyOption(os[i], st)
             rest == ApplyOptions_KeepsGoing(os, i + 1, r.s)
         IN  IF rest.err # NoErr THEN rest ELSE [s |-> rest.s, err |-> r.err]

(* for _, o := range opts { if err := o(s); err != nil { return nil, err } } *)
RECURSIVE ApplyOptions(_, _, _)
ApplyOptions(os, i, st) ==
    IF i > Len(os) THEN [s |-> st, err |-> NoErr]
    ELSE LET r == ApplyOption(os[i], st)
         IN  IF r.err # NoErr THEN r ELSE ApplyOptions(os, i + 1, r.s)

(* time.NewTicker(d) at time t: a channel with room for one tick.          *)
NewTicker(d, t) == [period |-> d, since |-> t, c |-> 0, stopped |-> FALSE]

(* The cleanup goroutine of `go func() { for range s.cleanupTicker.C ... }`: *)
(* it has not yet evaluated the range expression.                          *)
NewTask == [pc |-> "start", tk |-> 0]

(* The guard of InitCleanup letting a zero interval through. *)
CleanupEnabled_ZeroToo(st) == st.cleanupInterval >= 0

CleanupEnabled(st) == st.cleanupInterval > 0

(* InitCleanup on struct st with the tickers and goroutines that exist.    *)
InitCleanupOn(st, tks, tsk, t) ==
    IF CleanupEnabled(st)
    THEN [s |-> [st EXCEPT !.cleanupTicker = Len(tks) + 1],
          tickers |-> Append(tks, NewTicker(st.cleanupInterval, t)),
          tasks |-> Append(tsk, NewTask)]
    ELSE [s |-> st, tickers |-> tks, tasks |-> tsk]

NewTokenStore(os, t) ==
    LET r == ApplyOptions(os, 1, NewStruct)
        none == [s |-> r.s, store |-> FALSE, err |-> r.err,
                 tickers |-> <<>>, tasks |-> <<>>]
    IN  IF r.err # NoErr THEN none
        ELSE IF r.s.pool = "nil" THEN [none EXCEPT !.err = ErrNoConnPool]
        ELSE LET c == InitCleanupOn(r.s, <<>>, <<>>, t)
             IN  [s |-> c.s, store |-> TRUE, err |-> NoErr,
                  tickers |-> c.tickers, tasks |-> c.tasks]

NoCall == [op |-> "none", col |-> "", key |-> "", err |-> NoErr, info |-> <<>>,
           stmt |-> "none"]

(* The caller has the options in hand and has not yet called NewTokenStore. *)
InitNew ==
    /\ opts \in OptionSeqs
    /\ s = NewStruct
    /\ newRet = [done |-> FALSE, store |-> FALSE, err |-> NoErr]
    /\ tickers = <<>>
    /\ tasks = <<>>
    /\ closed = FALSE
    /\ rows = {}
    /\ nextId = 1
    /\ now = StartTime
    /\ idle = MaxConns
    /\ calls = 0
    /\ last = NoCall
    /\ sweepErrs = 0
    /\ swept = {}
    /\ schema = NoSchema
    /\ clients = {}
    /\ dbCalls = 0
    /\ dbLast = NoDbCall

Construct ==
    /\ ~newRet.done
    /\ LET r == NewTokenStore(opts, now)
       IN  /\ s' = r.s
           /\ newRet' = [done |-> TRUE, store |-> r.store, err |-> r.err]
           /\ tickers' = r.tickers
           /\ tasks' = r.tasks
    /\ UNCHANGED <<opts, closed, rows, nextId, now, idle, calls, last, sweepErrs, swept>>
    /\ UNCHANGED dbVars

NextNew == Construct

SpecNew == InitNew /\ [][NextNew]_vars

(* The state after a successful construction and InitTable, over an empty  *)
(* token table.                                                            *)
ServingOpts ==
    {<<ConnPoolOpt(FALSE)>>} \cup
    {<<ConnPoolOpt(FALSE), CleanupIntervalOpt(d)>> : d \in Intervals}

Init ==
    /\ opts \in ServingOpts
    /\ LET r == NewTokenStore(opts, StartTime)
       IN  /\ s = r.s
           /\ newRet = [done |-> TRUE, store |-> r.store, err |-> r.err]
           /\ tickers = r.tickers
           /\ tasks = r.tasks
    /\ closed = FALSE
    /\ rows = {}
    /\ nextId = 1
    /\ now = StartTime
    /\ idle = MaxConns
    /\ calls = 0
    /\ last = NoCall
    /\ sweepErrs = 0
    /\ swept = {}
    /\ schema = [NoSchema EXCEPT ![TokenTable] = FullTable(TokenIndexes)]
    /\ clients = {}
    /\ dbCalls = 0
    /\ dbLast = NoDbCall

----------------------------------------------------------------------------
(* The token table and the synchronous operations on it.                   *)

Columns == {"code", "access_token", "refresh_token"}

KeysOf(col) ==
    CASE col = "code" -> Codes
      [] col = "access_token" -> Accesses
      [] OTHER -> Refreshes

(* NewItem with the code set on top of the access and refresh columns. *)
NewItem_CodeKeepsLegs(info, t) ==
    LET item == [id |-> 0, code |-> "", access_token |-> "", refresh_token |-> "",
                 data |-> Marshal(info), created_at |-> t, expires_at |-> ZeroTime,
                 info |-> info]
        withAccess ==
            IF info.Access # ""
            THEN [item EXCEPT !.access_token = info.Access,
                              !.expires_at = info.AccessCreateAt + info.AccessExpiresIn]
            ELSE item
        withRefresh ==
            IF info.Refresh # ""
            THEN [withAccess EXCEPT !.refresh_token = info.Refresh,
                                    !.expires_at = info.RefreshCreateAt + info.RefreshExpiresIn]
            ELSE withAccess
    IN  IF info.Code # ""
        THEN [withRefresh EXCEPT !.code = info.Code,
                                 !.expires_at = info.CodeCreateAt + info.CodeExpiresIn]
        ELSE withRefresh

(* NewItem with the refresh leg evaluated before the access leg. *)
NewItem_RefreshFirst(info, t) ==
    LET item == [id |-> 0, code |-> "", access_token |-> "", refresh_token |-> "",
                 data |-> Marshal(info), created_at |-> t, expires_at |-> ZeroTime,
                 info |-> info]
        withRefresh ==
            IF info.Refresh # ""
            THEN [item EXCEPT !.refresh_token = info.Refresh,
                              !.expires_at = info.RefreshCreateAt + info.RefreshExpiresIn]
            ELSE item
        withAccess ==
            IF info.Access # ""
            THEN [withRefresh EXCEPT !.access_token = info.Access,
                                     !.expires_at = info.AccessCreateAt + info.AccessExpiresIn]
            ELSE withRefresh
    IN  IF info.Code # ""
        THEN [item EXCEPT !.code = info.Code,
                          !.expires_at = info.CodeCreateAt + info.CodeExpiresIn]
        ELSE withAccess

(* NewItem with the access and refresh legs evaluated before the code. *)
NewItem_CodeLast(info, t) ==
    LET item == [id |-> 0, code |-> "", access_token |-> "", refresh_token |-> "",
                 data |-> Marshal(info), created_at |-> t, expires_at |-> ZeroTime,
                 info |-> info]
        withCode ==
            IF info.Code # ""
            THEN [item EXCEPT !.code = info.Code,
                              !.expires_at = info.CodeCreateAt + info.CodeExpiresIn]
            ELSE item
        withAccess ==
            IF info.Access # ""
            THEN [withCode EXCEPT !.expires_at = info.AccessCreateAt + info.AccessExpiresIn]
            ELSE withCode
    IN  IF info.Refresh # ""
        THEN [withAccess EXCEPT !.expires_at = info.RefreshCreateAt + info.RefreshExpiresIn]
        ELSE withAccess

(* The TokenStoreItem that Create builds from info at time t               *)
(* (token_store.go:172-190).  The id is the zero value: the INSERT leaves  *)
(* the column to the BIGSERIAL sequence.  The field info is a history      *)
(* field, not a column: the argument Create was called with.               *)
NewItem(info, t) ==
    LET item == [id |-> 0, code |-> "", access_token |-> "", refresh_token |-> "",
                 data |-> Marshal(info), created_at |-> t, expires_at |-> ZeroTime,
                 info |-> info]
        withAccess ==
            IF info.Access # ""
            THEN [item EXCEPT !.access_token = info.Access,
                              !.expires_at = info.AccessCreateAt + info.AccessExpiresIn]
            ELSE item
        withRefresh ==
            IF info.Refresh # ""
            THEN [withAccess EXCEPT !.refresh_token = info.Refresh,
                                    !.expires_at = info.RefreshCreateAt + info.RefreshExpiresIn]
            ELSE withAccess
    IN  IF info.Code # ""
        THEN [item EXCEPT !.code = info.Code,
                          !.expires_at = info.CodeCreateAt + info.CodeExpiresIn]
        ELSE withRefresh

(* A statement reaches the database when the pool has a connection to give *)
(* (otherwise the acquire ends with the caller's deadline) and neither the *)
(* connection nor the statement fails.                                     *)
StatementRuns(fail) == idle > 0 /\ ~fail

Store == newRet.done /\ newRet.store

Create(info, fail) ==
    /\ Store
    /\ calls < MaxCalls
    /\ calls' = calls + 1
    /\ IF StatementRuns(fail)
       THEN /\ rows' = rows \cup {[NewItem(info, now) EXCEPT !.id = nextId]}
            /\ nextId' = nextId + 1
            /\ last' = [op |-> "Create", col |-> "", key |-> "", err |-> NoErr,
                        info |-> <<>>, stmt |-> "ok"]
       ELSE /\ last' = [op |-> "Create", col |-> "", key |-> "", err |-> StorageErr,
                        info |-> <<>>, stmt |-> "failed"]
            /\ UNCHANGED <<rows, nextId>>
    /\ UNCHANGED <<opts, s, newRet, tickers, tasks, closed, now, idle, sweepErrs, swept>>
    /\ UNCHANGED dbVars

(* The statement without its WHERE clause. *)
Matching_NoWhere(rws, col, key) == rws

(* SELECT * FROM table WHERE col = key *)
Matching(rws, col, key) == {r \in rws : r[col] = key}

(* scanToTokenInfo on the row the query produced (token_store.go:92-108). *)
ScanToTokenInfo(r) == [err |-> NoErr, info |-> <<Unmarshal(r.data)>>]

(* A lookup that reports an empty result as a generic storage error. *)
GetOutcomes_NoRowsIsStorageErr(rws, col, key) ==
    IF {r \in rws : r[col] = key} = {}
    THEN {[err |-> StorageErr, info |-> <<>>]}
    ELSE {[err |-> NoErr, info |-> <<Unmarshal(r.data)>>] :
            r \in {x \in rws : x[col] = key}}

(* What a lookup whose statement runs can return: QueryRow takes the first *)
(* row of the result, in whatever order the database produces the rows;    *)
(* with no row, row.Scan returns pgx.ErrNoRows.                            *)
GetOutcomes(rws, col, key) ==
    IF Matching(rws, col, key) = {}
    THEN {[err |-> ErrNoRows, info |-> <<>>]}
    ELSE {ScanToTokenInfo(r) : r \in Matching(rws, col, key)}

GetBy(col, key, fail) ==
    /\ Store
    /\ calls < MaxCalls
    /\ calls' = calls + 1
    /\ IF StatementRuns(fail)
       THEN \E out \in GetOutcomes(rows, col, key) :
               last' = [op |-> "Get", col |-> col, key |-> key, err |-> out.err,
                        info |-> out.info, stmt |-> "ok"]
       ELSE last' = [op |-> "Get", col |-> col, key |-> key, err |-> StorageErr,
                     info |-> <<>>, stmt |-> "failed"]
    /\ UNCHANGED <<opts, s, newRet, tickers, tasks, closed, rows, nextId, now,
                   idle, sweepErrs, swept>>
    /\ UNCHANGED dbVars

(* The empty-key guard left out. *)
EmptyKeyGuard_Missing(key) == FALSE

(* if key == "" { log; return nil } *)
EmptyKeyGuard(key) == key = ""

(* What RemoveBy returns after Exec returned execErr:                      *)
(*   if !errors.Is(err, pgx.ErrNoRows) { log(err.Error()); return err }    *)
(*   return nil                                                            *)
(* err.Error() on the nil error of a statement that succeeded is a nil     *)
(* pointer dereference.                                                    *)
RemoveReturn(execErr) ==
    IF execErr # ErrNoRows
    THEN IF execErr = NoErr THEN Panic ELSE execErr
    ELSE NoErr

RemoveBy(col, key, fail) ==
    /\ Store
    /\ calls < MaxCalls
    /\ calls' = calls + 1
    /\ IF EmptyKeyGuard(key)
       THEN /\ last' = [op |-> "Remove", col |-> col, key |-> key, err |-> NoErr,
                        info |-> <<>>, stmt |-> "none"]
            /\ rows' = rows
       ELSE IF StatementRuns(fail)
       THEN /\ rows' = rows \ Matching(rows, col, key)
            /\ last' = [op |-> "Remove", col |-> col, key |-> key,
                        err |-> RemoveReturn(NoErr), info |-> <<>>, stmt |-> "ok"]
       ELSE /\ rows' = rows
            /\ last' = [op |-> "Remove", col |-> col, key |-> key,
                        err |-> RemoveReturn(StorageErr), info |-> <<>>,
                        stmt |-> "failed"]
    /\ UNCHANGED <<opts, s, newRet, tickers, tasks, closed, nextId, now, idle,
                   sweepErrs, swept>>
    /\ UNCHANGED dbVars

----------------------------------------------------------------------------
(* The cleanup task (token_store.go:110-129, 290-300).                     *)

(* The sweep's comparison made strict. *)
Expired_Strict(r, t) == r.expires_at < t

(* DELETE FROM table WHERE expires_at <= $1, with $1 = time.Now() *)
Expired(r, t) == r.expires_at <= t

(* The public InitCleanup, called on a store that NewTokenStore returned,   *)
(* while fewer than limit tickers have been created.                       *)
InitCleanupCall(limit) ==
    /\ Store
    /\ Len(tickers) < limit
    /\ LET c == InitCleanupOn(s, tickers, tasks, now)
       IN  /\ s' = c.s
           /\ tickers' = c.tickers
           /\ tasks' = c.tasks
    /\ closed' = IF CleanupEnabled(s) THEN FALSE ELSE closed
    /\ UNCHANGED <<opts, newRet, rows, nextId, now, idle, calls, last, sweepErrs, swept>>
    /\ UNCHANGED dbVars

InitCleanup == InitCleanupCall(MaxInits)

(* The goroutine evaluates the range expression s.cleanupTicker.C, once.   *)
TaskStart(g) ==
    /\ tasks[g].pc = "start"
    /\ tasks' = [tasks EXCEPT ![g] = [pc |-> "recv", tk |-> s.cleanupTicker]]
    /\ UNCHANGED <<opts, s, newRet, tickers, closed, rows, nextId, now, idle,
                   calls, last, sweepErrs, swept>>
    /\ UNCHANGED dbVars

(* The goroutine receives a tick from the channel it ranges over.          *)
TaskRecv(g) ==
    /\ tasks[g].pc = "recv"
    /\ tickers[tasks[g].tk].c > 0
    /\ tickers' = [tickers EXCEPT ![tasks[g].tk].c = 0]
    /\ tasks' = [tasks EXCEPT ![g].pc = "clean"]
    /\ UNCHANGED <<opts, s, newRet, closed, rows, nextId, now, idle, calls,
                   last, sweepErrs, swept>>
    /\ UNCHANGED dbVars

(* The loop left on the first failed sweep. *)
AfterSweep_ReturnsOnError(task, failed) ==
    IF failed THEN [task EXCEPT !.pc = "exit"] ELSE [task EXCEPT !.pc = "recv"]

(* After cleanExpiredTokens returned, the loop body ends: the error, if    *)
(* any, was logged, and the goroutine waits for the next tick.             *)
AfterSweep(task, failed) == [task EXCEPT !.pc = "recv"]

(* The sweep's DELETE with its condition inverted. *)
Swept_KeepsExpired(rws, t) == {r \in rws : r.expires_at <= t}

(* The rows left by the sweep's DELETE at time t.                          *)
Swept(rws, t) == {r \in rws : ~Expired(r, t)}

(* Connections the pool has left after a sweep whose statement ran: the    *)
(* pgx.Rows that pool.Query returned holds the connection until it is      *)
(* closed or read to its end, and cleanExpiredTokens drops it unread.      *)
IdleAfterSweep(n) == n - 1

(* cleanExpiredTokens in the goroutine.  Its context is the one given to   *)
(* InitCleanup, context.Background() from NewTokenStore: with no idle      *)
(* connection the acquire blocks.                                          *)
CleanExpiredTokens(g, fail) ==
    /\ tasks[g].pc = "clean"
    /\ idle > 0
    /\ IF fail
       THEN /\ sweepErrs < MaxSweepErrs
            /\ sweepErrs' = sweepErrs + 1
            /\ UNCHANGED <<rows, idle, swept>>
       ELSE /\ rows' = Swept(rows, now)
            /\ swept' = swept \cup (rows \ Swept(rows, now))
            /\ idle' = IdleAfterSweep(idle)
            /\ UNCHANGED sweepErrs
    /\ tasks' = [tasks EXCEPT ![g] = AfterSweep(tasks[g], fail)]
    /\ UNCHANGED <<opts, s, newRet, tickers, closed, nextId, now, calls, last>>
    /\ UNCHANGED dbVars

(* A ticker that is due sends a tick unless its channel is full or it was  *)
(* stopped.                                                                *)
Due(tk, t) == ~tk.stopped /\ (t - tk.since) % tk.period = 0

AdvanceTime ==
    /\ now < MaxTime
    /\ now' = now + 1
    /\ tickers' = [i \in DOMAIN tickers |->
                     IF Due(tickers[i], now + 1)
                     THEN [tickers[i] EXCEPT !.c = 1] ELSE tickers[i]]
    /\ UNCHANGED <<opts, s, newRet, tasks, closed, rows, nextId, idle, calls,
                   last, sweepErrs, swept>>
    /\ UNCHANGED dbVars

(* Stop restarting a ticker that was already stopped. *)
StopTicker_Toggles(tks, i) ==
    IF i # 0 THEN [tks EXCEPT ![i].stopped = ~tks[i].stopped] ELSE tks

(* if s.cleanupTicker != nil { s.cleanupTicker.Stop() } *)
StopTicker(tks, i) == IF i # 0 THEN [tks EXCEPT ![i].stopped = TRUE] ELSE tks

Close ==
    /\ Store
    /\ tickers' = StopTicker(tickers, s.cleanupTicker)
    /\ closed' = TRUE
    /\ UNCHANGED <<opts, s, newRet, tasks, rows, nextId, now, idle, calls, last,
                   sweepErrs, swept>>
    /\ UNCHANGED dbVars

----------------------------------------------------------------------------

Next ==
    \/ \E info \in TokenInfos(now), fail \in BOOLEAN : Create(info, fail)
    \/ \E col \in Columns : \E key \in KeysOf(col), fail \in BOOLEAN :
          GetBy(col, key, fail)
    \/ \E col \in Columns : \E key \in KeysOf(col), fail \in BOOLEAN :
          RemoveBy(col, key, fail)
    \/ InitCleanup
    \/ \E g \in DOMAIN tasks : TaskStart(g)
    \/ \E g \in DOMAIN tasks : TaskRecv(g)
    \/ \E g \in DOMAIN tasks, fail \in BOOLEAN : CleanExpiredTokens(g, fail)
    \/ AdvanceTime
    \/ Close

Spec == Init /\ [][Next]_vars

(* The cleanup tasks of a store on which InitCleanup is called again after *)
(* construction: one ticker more than in Spec, over a table that stays     *)
(* empty.                                                                  *)
InitCleanupAgain == InitCleanupCall(MaxInits + 1)

NextTasks ==
    \/ InitCleanupAgain
    \/ \E g \in DOMAIN tasks : TaskStart(g)
    \/ \E g \in DOMAIN tasks : TaskRecv(g)
    \/ \E g \in DOMAIN tasks, fail \in BOOLEAN : CleanExpiredTokens(g, fail)
    \/ AdvanceTime
    \/ Close

SpecTasks == Init /\ [][NextTasks]_vars

(* The steps of cleanup goroutine g.  The Go scheduler runs a goroutine    *)
(* that can take a step: a goroutine is held up only while it is blocked,  *)
(* in the receive from its ticker's channel or in the pool's Acquire.      *)
TaskStep(g) ==
    /\ g \in DOMAIN tasks
    /\ \/ TaskStart(g)
       \/ TaskRecv(g)
       \/ \E fail \in BOOLEAN : CleanExpiredTokens(g, fail)

SpecTasksFair ==
    /\ Init
    /\ [][NextTasks]_vars
    /\ \A g \in 1..(MaxInits + 1) : WF_vars(TaskStep(g))

----------------------------------------------------------------------------
(* Table initialisation of both stores (token_store.go:133-160,            *)
(* README.md:177-199) and the client store (README.md:141-230).            *)

(* The variables of the token store proper. *)
tokenVars == <<opts, s, newRet, tickers, tasks, closed, rows, nextId, now, idle,
               calls, last, sweepErrs, swept>>

(* A CREATE TABLE statement parses when every column definition but the    *)
(* last is followed by a comma and the last one is not.                    *)
DDLParses(ddl) == \A i \in 1..Len(ddl) : ddl[i].comma = (i < Len(ddl))

(* One Exec of CREATE TABLE IF NOT EXISTS and the CREATE INDEX IF NOT      *)
(* EXISTS statements after it.  They are sent as one simple query: the     *)
(* database parses the whole text first and runs it in one implicit        *)
(* transaction.  run: the statement reached the database.                  *)
InitTableOn(sch, table, ddl, idxs, run) ==
    IF run /\ DDLParses(ddl)
    THEN [schema |-> [sch EXCEPT ![table] = @ \cup FullTable(idxs)], err |-> NoErr]
    ELSE [schema |-> sch, err |-> StorageErr]

DbCall(op, id, err, info, run) ==
    [op |-> op, id |-> id, err |-> err, info |-> info,
     stmt |-> IF run THEN "ok" ELSE "failed"]

TokenInitTable(fail) ==
    /\ Store
    /\ dbCalls < MaxDbCalls
    /\ dbCalls' = dbCalls + 1
    /\ LET r == InitTableOn(schema, TokenTable, TokenTableDDL, TokenIndexes,
                            StatementRuns(fail))
       IN  /\ schema' = r.schema
           /\ dbLast' = DbCall("TokenInitTable", "", r.err, <<>>, StatementRuns(fail))
    /\ UNCHANGED clients
    /\ UNCHANGED tokenVars

ClientInitTable(fail) ==
    /\ dbCalls < MaxDbCalls
    /\ dbCalls' = dbCalls + 1
    /\ LET r == InitTableOn(schema, ClientTable, ClientTableDDL, ClientIndexes,
                            StatementRuns(fail))
       IN  /\ schema' = r.schema
           /\ dbLast' = DbCall("ClientInitTable", "", r.err, <<>>, StatementRuns(fail))
    /\ UNCHANGED clients
    /\ UNCHANGED tokenVars

(* The framework's client record (models.Client behind oauth2.ClientInfo). *)
ClientFields == <<"ID", "Secret", "Domain", "UserID">>
ClientIDs == {"x", "y"}
ClientSecrets == {"s1", "s2"}

ClientInfos ==
    {[ID |-> i, Secret |-> sc, Domain |-> "example.org", UserID |-> "u"] :
       i \in ClientIDs, sc \in ClientSecrets}

(* json.Marshal(info) *)
MarshalClient(info) ==
    [i \in 1..Len(ClientFields) |-> <<ClientFields[i], info[ClientFields[i]]>>]

(* The row of the INSERT in ClientStore.Create.  The field info is a       *)
(* history field, not a column: the argument Create was called with.       *)
NewClientItem(info, t) ==
    [id |-> info.ID, secret |-> info.Secret, domain |-> info.Domain,
     data |-> MarshalClient(info), created_at |-> t, info |-> info]

(* The INSERT is refused when the table does not exist or when a row with  *)
(* the id is in it (id is the PRIMARY KEY).                                *)
InsertAccepted(rws, id) == schema[ClientTable] # {} /\ \A r \in rws : r.id # id

ClientCreate(info, fail) ==
    /\ dbCalls < MaxDbCalls
    /\ dbCalls' = dbCalls + 1
    /\ IF StatementRuns(fail) /\ InsertAccepted(clients, info.ID)
       THEN /\ clients' = clients \cup {NewClientItem(info, now)}
            /\ dbLast' = DbCall("Create", info.ID, NoErr, <<>>, TRUE)
       ELSE /\ clients' = clients
            /\ dbLast' = DbCall("Create", info.ID, StorageErr, <<>>, StatementRuns(fail))
    /\ UNCHANGED schema
    /\ UNCHANGED tokenVars

(* The fields of ClientStoreItem that row.Scan is given, in order, each    *)
(* with its Go type.                                                       *)
ClientStoreItem ==
    <<[field |-> "ID", type |-> "int64"], [field |-> "Secret", type |-> "string"],
      [field |-> "Domain", type |-> "string"], [field |-> "Data", type |-> "[]byte"],
      [field |-> "CreatedAt", type |-> "time.Time"]>>

(* The column types that pgx scans into a destination of a Go type. *)
Scannable(colType, goType) ==
    <<colType, goType>> \in
        {<<"VARCHAR", "string">>, <<"TEXT", "string">>, <<"BIGSERIAL", "int64">>,
         <<"JSONB", "[]byte">>, <<"TIMESTAMPTZ", "time.Time">>}

(* row.Scan of a row of SELECT * into the fields of the item. *)
RowScans(ddl, item) ==
    /\ Len(ddl) = Len(item)
    /\ \A i \in 1..Len(ddl) : Scannable(ddl[i].type, item[i].type)

(* The error of a row that cannot be scanned or decoded: not pgx.ErrNoRows. *)
DecodeErr == "cannot scan or unmarshal"

(* var info oauth2.ClientInfo; json.Unmarshal(item.Data, &info): the       *)
(* destination is a nil interface value of an interface with methods, into *)
(* which encoding/json cannot decode a JSON object.                        *)
UnmarshalClient(data, target) ==
    IF target = "oauth2.ClientInfo"
    THEN [err |-> DecodeErr, info |-> <<>>]
    ELSE [err |-> NoErr,
          info |-> <<[f \in {ClientFields[i] : i \in 1..Len(ClientFields)} |->
                        data[CHOOSE i \in 1..Len(data) : data[i][1] = f][2]]>>]

(* scanToClientInfo on a row the query produced (README.md:156-173). *)
ScanToClientInfo(r) ==
    IF ~RowScans(ClientTableDDL, ClientStoreItem)
    THEN [err |-> DecodeErr, info |-> <<>>]
    ELSE UnmarshalClient(r.data, "oauth2.ClientInfo")

GetByID(id, fail) ==
    /\ dbCalls < MaxDbCalls
    /\ dbCalls' = dbCalls + 1
    /\ LET run == StatementRuns(fail) /\ schema[ClientTable] # {}
           hit == {r \in clients : r.id = id}
       IN  IF ~run
           THEN dbLast' = DbCall("GetByID", id, StorageErr, <<>>, StatementRuns(fail))
           ELSE IF hit = {}
           THEN dbLast' = DbCall("GetByID", id, ErrNoRows, <<>>, TRUE)
           ELSE \E r \in hit :
                   dbLast' = DbCall("GetByID", id, ScanToClientInfo(r).err,
                                    ScanToClientInfo(r).info, TRUE)
    /\ UNCHANGED <<schema, clients>>
    /\ UNCHANGED tokenVars

(* The store over a database in which each table is absent or was created  *)
(* before, the token table with or without a row in it.                    *)
InitDB ==
    /\ opts = <<ConnPoolOpt(FALSE)>>
    /\ LET r == NewTokenStore(opts, StartTime)
       IN  /\ s = r.s
           /\ newRet = [done |-> TRUE, store |-> r.store, err |-> r.err]
           /\ tickers = r.tickers
           /\ tasks = r.tasks
    /\ closed = FALSE
    /\ schema \in {[NoSchema EXCEPT ![TokenTable] = tt, ![ClientTable] = ct] :
                     tt \in TableStates(TokenIndexes),
                     ct \in TableStates(ClientIndexes)}
    /\ rows \in IF schema[TokenTable] = {} THEN {{}}
                ELSE {{}} \cup {{[NewItem(info, StartTime) EXCEPT !.id = 1]} :
                                  info \in TokenInfos(StartTime)}
    /\ nextId = 2
    /\ now = StartTime
    /\ idle = MaxConns
    /\ calls = 0
    /\ last = NoCall
    /\ sweepErrs = 0
    /\ swept = {}
    /\ clients = {}
    /\ dbCalls = 0
    /\ dbLast = NoDbCall

NextDB ==
    \/ \E fail \in BOOLEAN : TokenInitTable(fail)
    \/ \E fail \in BOOLEAN : ClientInitTable(fail)
    \/ \E info \in ClientInfos, fail \in BOOLEAN : ClientCreate(info, fail)
    \/ \E id \in ClientIDs, fail \in BOOLEAN : GetByID(id, fail)

SpecDB == InitDB /\ [][NextDB]_vars

----------------------------------------------------------------------------
(* Properties. *)

(* A step that is a synchronous call: it is counted in calls. *)
IsCall == calls' = calls + 1

\* C1: RemoveByCode(""), RemoveByAccess("") and RemoveByRefresh("") return nil
\* and leave the set of rows exactly as it was, in every reachable state of
\* the table, rows with an empty code/access_token/refresh_token included.
C1_EmptyKeyRemoveKeepsRows ==
    [][(IsCall /\ last'.op = "Remove" /\ last'.key = "")
         => (last'.err = NoErr /\ rows' = rows)]_vars

\* A removal by the empty key has returned while a row with the empty string
\* in that column was in the table.
C1_Witness ==
    /\ last.op = "Remove" /\ last.key = "" /\ last.err = NoErr
    /\ \E r \in rows : r[last.col] = ""

\* C2: for a non-empty key, RemoveBy returns nil exactly when the delete
\* statement did not fail and a storage error exactly when it failed; it
\* returns normally when the delete succeeds, and then no row with the key in
\* the column remains.
C2_RemoveReturnsNilOnSuccess ==
    (last.op = "Remove" /\ last.key # "")
      => /\ (last.stmt = "ok" <=> last.err = NoErr)
         /\ (last.stmt = "failed" <=> last.err = StorageErr)
         /\ (last.stmt = "ok" => Matching(rows, last.col, last.key) = {})

(* The lookups by the canonical key of a token: by its code when it has    *)
(* one, otherwise by its access token and by its refresh token.            *)
CanonicalKeys(info) ==
    IF info.Code # "" THEN {[col |-> "code", key |-> info.Code]}
    ELSE (IF info.Access # ""
          THEN {[col |-> "access_token", key |-> info.Access]} ELSE {})
         \cup
         (IF info.Refresh # ""
          THEN {[col |-> "refresh_token", key |-> info.Refresh]} ELSE {})

\* C3: a lookup by the canonical key of a token that Create stored, whose row
\* is still in the table and is the only row holding that key, returns a
\* record equal in every field to the record Create was given (unless the
\* lookup's own statement fails).
C3_RoundTrip ==
    [][(IsCall /\ last'.op = "Get" /\ last'.stmt = "ok")
         => \A r \in rows :
              ( /\ [col |-> last'.col, key |-> last'.key] \in CanonicalKeys(r.info)
                /\ Matching(rows, last'.col, last'.key) \ {r} = {} )
              => (last'.err = NoErr /\ last'.info = <<r.info>>)]_vars

\* A lookup by refresh token has returned the access+refresh token that
\* Create was given.
C3_Witness ==
    /\ last.op = "Get" /\ last.col = "refresh_token" /\ last.err = NoErr
    /\ \E r \in rows : /\ last.info = <<r.info>>
                       /\ r.info.Code = "" /\ r.info.Access # ""
                       /\ r.info.Refresh = last.key

\* C8: a row created from a token with a non-empty code and a non-empty
\* access or refresh token expires at codeCreateAt + codeExpiresIn.
C8_CodeExpiryWins ==
    \A r \in rows :
        (r.info.Code # "" /\ (r.info.Access # "" \/ r.info.Refresh # ""))
          => r.expires_at = r.info.CodeCreateAt + r.info.CodeExpiresIn

\* A row of a token with all three strings, whose code expiry differs from
\* both its access expiry and its refresh expiry.
C8_Witness ==
    \E r \in rows :
        /\ r.info.Code # "" /\ r.info.Access # "" /\ r.info.Refresh # ""
        /\ r.expires_at # r.info.AccessCreateAt + r.info.AccessExpiresIn
        /\ r.expires_at # r.info.RefreshCreateAt + r.info.RefreshExpiresIn

(* A step in which a cleanup goroutine ran cleanExpiredTokens. *)
SweepStep ==
    /\ ~IsCall
    /\ \E g \in DOMAIN tasks : tasks[g].pc = "clean" /\ tasks'[g].pc # "clean"

(* A sweep whose statement ran without a failure. *)
SweepRan == SweepStep /\ sweepErrs' = sweepErrs

(* The non-empty key strings of a token, each with its lookup column. *)
RecordKeys(info) ==
    (IF info.Code # "" THEN {[col |-> "code", key |-> info.Code]} ELSE {})
    \cup (IF info.Access # ""
          THEN {[col |-> "access_token", key |-> info.Access]} ELSE {})
    \cup (IF info.Refresh # ""
          THEN {[col |-> "refresh_token", key |-> info.Refresh]} ELSE {})

NotFound == [err |-> ErrNoRows, info |-> <<>>]

\* C4 as stated: once a sweep has run without a failure, the lookups by the
\* code, access token and refresh token of every record whose row had its
\* expiresAt in the past all return "not found".
C4_ExpiredKeysNotFound ==
    [][SweepRan
         => \A r \in rows : r.expires_at < now
              => \A k \in RecordKeys(r.info) :
                    GetOutcomes(rows', k.col, k.key) = {NotFound}]_vars

\* C4 as amended: once a sweep has run without a failure at time now, no row
\* with expiresAt <= now is left, and a lookup by a key of such a record
\* returns "not found" or else another row that holds the same key and had
\* not expired when the sweep ran.
C4_ExpiredRowsSwept ==
    [][SweepRan
         => \A r \in rows : r.expires_at <= now
              => /\ r \notin rows'
                 /\ \A k \in RecordKeys(r.info) :
                       GetOutcomes(rows', k.col, k.key) \subseteq
                         {NotFound} \cup
                         {ScanToTokenInfo(q) :
                            q \in {x \in rows \ {r} :
                                     x[k.col] = k.key /\ x.expires_at > now}}]_vars

\* A sweep has deleted an expired row, and a later lookup by a key of its
\* record has returned "not found".
C4_Witness ==
    /\ last.op = "Get" /\ last.stmt = "ok" /\ last.err = ErrNoRows
    /\ \E r \in swept : [col |-> last.col, key |-> last.key] \in RecordKeys(r.info)

\* C5: a row leaves the table only in a RemoveBy call whose non-empty key is
\* the row's value in that column, or in a sweep that ran at a time now with
\* expiresAt <= now; no sweep deletes a row that expires later.
C5_RowsLeaveByRemoveOrExpiry ==
    [][\A r \in rows \ rows' :
         \/ (IsCall /\ last'.op = "Remove" /\ last'.key # ""
               /\ r[last'.col] = last'.key)
         \/ (SweepStep /\ r.expires_at <= now)]_vars

\* A sweep has deleted a row while an older row, which expires later than
\* the clock reads now, stayed in the table.
C5_Witness ==
    \E q \in swept : \E r \in rows : r.id < q.id /\ r.expires_at > now

\* C6: once Close has returned, no sweep is started, not even for a tick that
\* was pending when Close was called.
C6_NoSweepAfterClose == [][closed => ~SweepStep]_vars

\* C7: a failed sweep is only logged: no synchronous call observes it, the
\* ticker and the store are left as they were, and the goroutine stays in
\* its loop, waiting for the next tick of the same ticker.
C7_FailedSweepNotFatal ==
    [][sweepErrs' > sweepErrs
         => /\ last' = last /\ calls' = calls /\ rows' = rows
            /\ tickers' = tickers /\ s' = s /\ closed' = closed
            /\ \A g \in DOMAIN tasks :
                  \/ tasks'[g] = tasks[g]
                  \/ (tasks[g].pc = "clean"
                        /\ tasks'[g] = [pc |-> "recv", tk |-> tasks[g].tk])]_vars

\* After a sweep failed, a goroutine has received a further tick and is about
\* to sweep again.
C7_Witness ==
    /\ sweepErrs > 0
    /\ \E g \in DOMAIN tasks : tasks[g].pc = "clean"

\* C10: with a cleanup interval that is not positive, InitCleanup creates no
\* ticker and no goroutine, and a row leaves the table only in a RemoveBy
\* call that matches it, however long ago it expired.
C10_NoSweepWithoutInterval ==
    [][s.cleanupInterval <= 0
         => /\ tickers' = <<>> /\ tasks' = <<>> /\ s'.cleanupTicker = 0
            /\ \A r \in rows \ rows' :
                  IsCall /\ last'.op = "Remove" /\ r[last'.col] = last'.key]_vars

\* The interval is not positive and a row whose expiresAt is in the past is
\* in the table.
C10_Witness ==
    /\ s.cleanupInterval <= 0
    /\ tickers = <<>>
    /\ \E r \in rows : r.expires_at < now

(* The error an option reports, by the kind of option and its argument. *)
C9_OptionError(o) ==
    CASE o.kind = "table" /\ o.table = "" -> ErrNoTable
      [] o.kind = "pool" /\ o.isNil -> ErrNoConnPool
      [] o.kind = "logger" /\ o.isNil -> ErrNoLogger
      [] OTHER -> NoErr

C9_Failing == {i \in 1..Len(opts) : C9_OptionError(opts[i]) # NoErr}

(* The options applied: all of them, or those before the first failing one. *)
C9_Applied ==
    IF C9_Failing = {} THEN Len(opts)
    ELSE (CHOOSE i \in C9_Failing : \A j \in C9_Failing : i <= j) - 1

(* The position of the last applied option of a kind, 0 when there is none. *)
C9_LastOf(kind) ==
    LET at == {i \in 1..C9_Applied : opts[i].kind = kind}
    IN  IF at = {} THEN 0 ELSE CHOOSE i \in at : \A j \in at : j <= i

(* The struct fields the applied options leave, in the order given. *)
C9_Fields ==
    /\ s.table = IF C9_LastOf("table") = 0 THEN DefaultTokenStoreTable
                 ELSE opts[C9_LastOf("table")].table
    /\ s.cleanupInterval = IF C9_LastOf("interval") = 0 THEN 0
                           ELSE opts[C9_LastOf("interval")].interval
    /\ s.logger = IF C9_LastOf("logger") = 0 THEN "NoopLogger" ELSE "logger"
    /\ s.pool = IF C9_LastOf("pool") = 0 THEN "nil" ELSE "pool"

\* C9: NewTokenStore applies its options in the order given.  It returns a
\* store exactly when every option succeeded and a pool was set; otherwise it
\* returns the error of the first failing option, with no later option
\* applied, or ErrNoConnPool when no pool option was given; whenever it fails
\* it returns no store and starts no cleanup task.
C9_ConstructionOutcome ==
    newRet.done
      => /\ C9_Fields
         /\ IF C9_Failing # {}
            THEN /\ newRet.err = C9_OptionError(opts[C9_Applied + 1])
                 /\ ~newRet.store /\ tickers = <<>> /\ tasks = <<>>
            ELSE IF C9_LastOf("pool") = 0
            THEN /\ newRet.err = ErrNoConnPool
                 /\ ~newRet.store /\ tickers = <<>> /\ tasks = <<>>
            ELSE /\ newRet.err = NoErr /\ newRet.store
                 /\ Len(tickers) = (IF s.cleanupInterval > 0 THEN 1 ELSE 0)
                 /\ Len(tasks) = Len(tickers)
                 /\ s.cleanupTicker = Len(tickers)

\* NewTokenStore has returned ErrNoLogger for a valid pool, a nil logger and
\* an empty table name, in this order.
C9_Witness ==
    /\ newRet.done /\ ~newRet.store /\ newRet.err = ErrNoLogger
    /\ opts = <<ConnPoolOpt(FALSE), LoggerOpt(TRUE), TableOpt("")>>

\* C11: Close can be called in every state of a store (no cleanup started,
\* cleanup running, already closed); it leaves the rows, the pool and its
\* connections, the struct, the goroutines and the results of the
\* synchronous calls as they were, it only marks the store's ticker as
\* stopped, and a Close of a store that is already closed changes nothing.
C11_CloseIdempotent ==
    [][/\ Store => ENABLED Close
       /\ Close => /\ rows' = rows /\ idle' = idle /\ s' = s /\ nextId' = nextId
                   /\ tasks' = tasks /\ last' = last /\ sweepErrs' = sweepErrs
                   /\ \A i \in DOMAIN tickers :
                         /\ tickers'[i].c = tickers[i].c
                         /\ tickers[i].stopped => tickers'[i].stopped
                   /\ closed => tickers' = tickers]_vars

\* The store was closed while its goroutine was about to sweep and rows were
\* in the table, and the ticker is stopped.
C11_Witness ==
    /\ closed /\ rows # {} /\ s.cleanupTicker # 0
    /\ tickers[s.cleanupTicker].stopped
    /\ \E g \in DOMAIN tasks : tasks[g].pc = "clean"

\* C12: a lookup never changes the rows; when its statement runs and no row
\* has the key in the column, it returns "not found" and no record; it
\* returns "not found" only then, and a storage error only when its
\* statement did not run.
C12_AbsentKeyNotFound ==
    [][(IsCall /\ last'.op = "Get")
         => /\ rows' = rows
            /\ (last'.stmt = "ok" /\ Matching(rows, last'.col, last'.key) = {})
                  => (last'.err = ErrNoRows /\ last'.info = <<>>)
            /\ last'.err = ErrNoRows
                  => (last'.stmt = "ok" /\ Matching(rows, last'.col, last'.key) = {})
            /\ last'.err = StorageErr => last'.stmt = "failed"]_vars

\* A lookup by the access token of a row that a sweep deleted has returned
\* "not found" over the table the sweep left empty.
C12_Witness ==
    /\ last.op = "Get" /\ last.col = "access_token" /\ last.err = ErrNoRows
    /\ rows = {}
    /\ \E r \in swept : r.access_token = last.key /\ last.key # ""

(* A step that is an InitTable or a client store call. *)
IsDbCall == dbCalls' = dbCalls + 1

\* C13: at most one client row exists per id; a Create whose id is already in
\* the table fails with a storage error and leaves the table unchanged; and
\* after such a refused Create, GetByID with that id returns the first
\* record, unchanged.
C13_ClientUniqueness ==
    [][/\ \A r1, r2 \in clients' : r1.id = r2.id => r1 = r2
       /\ (IsDbCall /\ dbLast'.op = "Create" /\ \E r \in clients : r.id = dbLast'.id)
             => (dbLast'.err = StorageErr /\ clients' = clients)
       /\ (IsDbCall /\ dbLast'.op = "GetByID" /\ dbLast'.stmt = "ok"
             /\ dbLast.op = "Create" /\ dbLast.stmt = "ok" /\ dbLast.err = StorageErr
             /\ dbLast'.id = dbLast.id)
             => \A r \in clients :
                   r.id = dbLast'.id
                     => (dbLast'.err = NoErr /\ dbLast'.info = <<r.info>>)]_vars

\* C14: a GetByID whose statement runs, with the id of a record that a
\* successful Create stored, succeeds and returns a record equal in id,
\* secret, domain and the remaining fields to the record given to Create.
C14_ClientRoundTrip ==
    [][(IsDbCall /\ dbLast'.op = "GetByID" /\ dbLast'.stmt = "ok")
         => \A r \in clients :
               r.id = dbLast'.id
                 => (dbLast'.err = NoErr /\ dbLast'.info = <<r.info>>)]_vars

\* C15: an InitTable of either store whose statement reaches the database
\* succeeds and leaves the table with its indexes in the schema and every
\* row as it was; a second InitTable right after a successful one leaves
\* the schema unchanged.
C15_InitTableIdempotent ==
    [][(IsDbCall /\ dbLast'.op \in {"TokenInitTable", "ClientInitTable"}
          /\ dbLast'.stmt = "ok")
         => /\ dbLast'.err = NoErr
            /\ rows' = rows /\ clients' = clients
            /\ dbLast'.op = "TokenInitTable"
                  => schema'[TokenTable] = FullTable(TokenIndexes)
            /\ dbLast'.op = "ClientInitTable"
                  => schema'[ClientTable] = FullTable(ClientIndexes)
            /\ (dbLast.op = dbLast'.op /\ dbLast.err = NoErr) => schema' = schema]_vars

(* The rows of tokens without a code that carry an access token and a     *)
(* refresh token.                                                          *)
C16_Pairs(rws) ==
    {r \in rws : r.info.Code = "" /\ r.info.Access # "" /\ r.info.Refresh # ""}

\* C16: a row created from a token with an empty code and both an access and
\* a refresh token holds both strings and expires at refreshCreateAt +
\* refreshExpiresIn; with an access token only it expires at accessCreateAt +
\* accessExpiresIn; and a sweep that runs at time now deletes a row of the
\* first kind exactly when its refresh expiry is <= now, whatever its access
\* expiry is.
C16_RefreshExpiryWins ==
    [][/\ \A r \in C16_Pairs(rows \cup rows') :
             /\ r.access_token = r.info.Access /\ r.refresh_token = r.info.Refresh
             /\ r.code = ""
             /\ r.expires_at = r.info.RefreshCreateAt + r.info.RefreshExpiresIn
       /\ \A r \in rows \cup rows' :
             (r.info.Code = "" /\ r.info.Access # "" /\ r.info.Refresh = "")
               => /\ r.access_token = r.info.Access /\ r.refresh_token = ""
                  /\ r.expires_at = r.info.AccessCreateAt + r.info.AccessExpiresIn
       /\ SweepRan
             => \A r \in C16_Pairs(rows) :
                   r \in rows' <=>
                     r.info.RefreshCreateAt + r.info.RefreshExpiresIn > now]_vars

\* A sweep has deleted an access+refresh row whose access token has not
\* expired.
C16_Witness ==
    \E r \in C16_Pairs(swept) :
        r.info.AccessCreateAt + r.info.AccessExpiresIn > now

(* The rows of tokens that have a code. *)
C17_CodeRows(rws) == {r \in rws : r.info.Code # ""}

C17_LegColumns == {"access_token", "refresh_token"}

(* The columns of a code row, and what a removal by access or refresh      *)
(* token does to the code rows.                                            *)
C17_ColumnsAndRemoval ==
    /\ \A r \in C17_CodeRows(rows \cup rows') :
          r.code = r.info.Code /\ r.access_token = "" /\ r.refresh_token = ""
    /\ (IsCall /\ last'.op = "Remove" /\ last'.col \in C17_LegColumns)
          => C17_CodeRows(rows) \subseteq rows'

\* C17 as stated: a row created from a token with a code has empty
\* access_token and refresh_token columns, no removal by access or refresh
\* token deletes it, and no lookup by access or refresh token returns it: it
\* is reachable through GetByCode only.
C17_CodeRowByCodeOnly ==
    [][/\ C17_ColumnsAndRemoval
       /\ (IsCall /\ last'.op = "Get" /\ last'.col \in C17_LegColumns
             /\ last'.err = NoErr)
             => last'.info[1].Code = ""]_vars

\* C17 as amended: a row created from a token with a code has empty
\* access_token and refresh_token columns; no removal by access or refresh
\* token deletes it and no lookup by a non-empty access or refresh token
\* returns it; GetByAccess("") and GetByRefresh("") do match it.
C17_CodeRowByCodeOrEmptyKey ==
    [][/\ C17_ColumnsAndRemoval
       /\ (IsCall /\ last'.op = "Get" /\ last'.col \in C17_LegColumns
             /\ last'.err = NoErr /\ last'.key # "")
             => last'.info[1].Code = ""
       /\ \A r \in C17_CodeRows(rows) : \A col \in C17_LegColumns :
             /\ ScanToTokenInfo(r) \in GetOutcomes(rows, col, "")
             /\ \A key \in KeysOf(col) \ {""} : r \notin Matching(rows, col, key)]_vars

\* A lookup by the access token of a token that was stored with its code has
\* returned "not found" while the row was in the table.
C17_Witness ==
    /\ last.op = "Get" /\ last.col = "access_token" /\ last.key # ""
    /\ last.err = ErrNoRows
    /\ \E r \in C17_CodeRows(rows) : r.info.Access = last.key

(* The field of a token record that a lookup column is filled from. *)
C18_FieldOf(col) ==
    CASE col = "code" -> "Code"
      [] col = "access_token" -> "Access"
      [] OTHER -> "Refresh"

\* C18 as stated: whenever a lookup by key k returns a record, k empty or
\* not, the record's own code / access / refresh field equals k.
C18_ResultMatchesKey ==
    [][(IsCall /\ last'.op = "Get" /\ last'.err = NoErr)
         => last'.info[1][C18_FieldOf(last'.col)] = last'.key]_vars

\* C18 as amended: whenever a lookup by a non-empty key k returns a record,
\* the record's own code / access / refresh field equals k; a lookup by the
\* empty string returns a record whose field is empty or, for GetByAccess
\* and GetByRefresh, a record that was stored with a code.
C18_ResultMatchesNonEmptyKey ==
    [][(IsCall /\ last'.op = "Get" /\ last'.err = NoErr)
         => IF last'.key # ""
            THEN last'.info[1][C18_FieldOf(last'.col)] = last'.key
            ELSE \/ last'.info[1][C18_FieldOf(last'.col)] = ""
                 \/ (last'.col # "code" /\ last'.info[1].Code # "")]_vars

\* GetByRefresh("") has returned the record of an access token that has no
\* refresh token.
C18_Witness ==
    /\ last.op = "Get" /\ last.col = "refresh_token" /\ last.key = ""
    /\ last.err = NoErr
    /\ last.info[1].Code = "" /\ last.info[1].Access # ""

\* C19: a sweep whose statement has run gives its connection back, so the
\* pool has as many idle connections after the sweep as before it, and at
\* every time a connection is left for a synchronous operation to acquire.
C19_SweepsReturnConnections ==
    [][(SweepRan => idle' = idle) /\ idle' > 0]_vars

(* The tickers that have not been stopped. *)
C20_Active == {i \in DOMAIN tickers : ~tickers[i].stopped}

\* C20: for a store built with a positive interval, whatever InitCleanup and
\* Close calls follow, at most one ticker of the store is active, and once
\* Close has returned every ticker the store has started is stopped.
C20_OneCleanupTask ==
    s.cleanupInterval > 0
      => /\ Cardinality(C20_Active) <= 1
         /\ closed => C20_Active = {}

\* C21: once Close has returned on a store that has started a cleanup
\* goroutine, and every ticker the store has created is stopped (no tick
\* will be sent any more, however long the clock runs), every cleanup
\* goroutine of the store eventually leaves its loop and ends.
C21_TaskEndsAfterClose ==
    (closed /\ tasks # <<>> /\ C20_Active = {})
      ~> (\A g \in DOMAIN tasks : tasks[g].pc = "exit")

====
